---- MODULE Spec2Model ----
(***************************************************************************)
(* hyperliquidx: the reactive-async core.                                  *)
(*   createResource      src/src/utils/resource.ts                         *)
(*   definedEffect       src/src/utils/defined-effect.ts                   *)
(*   useCandlesSnapshot  src/unnamed/part_000 (hooks/candles)              *)
(* The specifications share one set of variables: Spec (one resource and   *)
(* its fetch tasks), SpecLive (Spec with every started fetch settling),    *)
(* SpecPair (two resources side by side), SpecActions (the action hooks),  *)
(* SpecWindow (useCandlesSnapshot: a resource, the seed effect and the     *)
(* merge effect), SpecArrays (the same with the window's array objects),   *)
(* SpecStreams (useOrderUpdates, useMidPrice) and SpecEffect (one          *)
(* definedEffect over NCells signals).  A signal write and the effect runs *)
(* it triggers are one step: propagation is synchronous.  A fetch task's   *)
(* settlement is a step of its own.                                        *)
(***************************************************************************)
EXTENDS Integers, Sequences, FiniteSets, TLC

VARIABLES
  source,           \* the value sourceFn() returns
  resourceState,    \* resourceState.value: {data, loading, error}
  fetchId,          \* let fetchId
  abortController,  \* let abortController: the id of its task, 0 for null
  tasks,            \* runFetcher invocations: id -> [src, status, aborted]
  stateWritten,     \* the resource's last operation assigned resourceState.value
  outcome,          \* history: id -> the value a task settled with (Spec only)
  lastSettled,      \* history: the id of the task that settled last (Spec only)
  thrown,           \* history: a failure of the fetcher left runFetcher uncaught
  current,          \* $current.value
  snapshot,         \* $snapshot.value
  size,             \* let size
  seedDisposed,     \* the seed effect's subscription is torn down
  mergeDisposed,    \* the merge effect's subscription is torn down
  cells,            \* SpecEffect: the tracked signals' values
  currentCleanup,   \* SpecEffect: let currentCleanup
  effectDisposed,   \* SpecEffect: the effect's subscription is torn down
  lastRun,          \* history: what the last run of the effect did
  calls,            \* history: how many times the callback was invoked
  cleanupCalls,     \* history: k -> how often the k-th invocation's cleanup ran
  log,              \* history: the callback and cleanup invocations, in order
  orderUpdates,     \* SpecStreams: $orderUpdates.value
  delivered,        \* history: the order updates the stream has pushed
  mid,              \* SpecStreams: $mid.value, in thousandths
  lastMids,         \* history: the configured coin's entry in the last allMids push
  midThrew,         \* history: the last allMids callback threw
  insts,            \* several resources: name -> that createResource call's locals
  actor,            \* history: the resource whose operation ran last
  peeked            \* SpecArrays: the array the last merge read, as the merge left it

rvars == <<source, resourceState, fetchId, abortController, tasks, stateWritten>>
hvars == <<outcome, lastSettled, thrown>>
wvars == <<current, snapshot, size, seedDisposed, mergeDisposed>>
evars == <<cells, currentCleanup, effectDisposed, lastRun, calls, cleanupCalls, log>>
svars == <<orderUpdates, delivered, mid, lastMids, midThrew>>
ivars == <<insts, actor>>
avars == <<peeked>>
vars == <<rvars, hvars, wvars, evars, svars, ivars, avars>>

(* ------------------------------ bounds -------------------------------- *)
\* fetchId never exceeds MaxGen: source changes and refetches stop there.
MaxGen == 3
\* The snapshot resource of SpecWindow is fetched at most MaxSnapFetch times.
MaxSnapFetch == 2
\* A fetched snapshot holds at most MaxSnap candles.
MaxSnap == 2
\* SpecEffect: the effect tracks NCells signals.
NCells == 2
\* SpecEffect: the callback is invoked at most MaxCalls times.
MaxCalls == 3
\* SpecEffect: one cleanup function is invoked at most MaxCleanupCalls times.
MaxCleanupCalls == 2

\* An orderUpdates push carries at most MaxPush order updates.
MaxPush == 2

\* Each of two resources side by side stops at generation MaxPairGen.
MaxPairGen == 2

(* ------------------------------ values -------------------------------- *)
\* An optional value: undefined, or a defined value x.
Undefined == <<>>
Def(x) == <<x>>
Val(o) == o[1]

AbsentSources == {"undefined", "null", "false"}
PresentSources == {"0", "a"}
SourceVals == AbsentSources \cup PresentSources
DataVals == {"d1", "d2"}
ErrVals == {"e1", "AbortError"}
\* A candle: its close time T and the rest of its fields (c, the close price).
Times == {1, 2, 3}
Prices == {"x", "y"}
Candles == [T : Times, c : Prices]
\* SpecEffect: what a tracked signal holds; null is a defined value.
CellVals == {Undefined, Def("null"), Def("v")}
\* What candleSnapshot resolves with: an array of at most MaxSnap candles, in
\* the order of their close times (equal close times may follow each other).
SnapVals ==
  {s \in UNION {[1..n -> [T : Times, c : {"x"}]] : n \in 0..MaxSnap} :
     \A i \in 1..(Len(s) - 1) : s[i].T <= s[i + 1].T}

(* ---------------------------- createResource -------------------------- *)
\* sourceValue !== undefined && sourceValue !== null && sourceValue !== false
IsPresent(sourceValue) ==
  sourceValue # "undefined" /\ sourceValue # "null" /\ sourceValue # "false"

Idle == [data |-> Undefined, loading |-> FALSE, error |-> Undefined]

LoadingStateDropsData(s) == [data |-> Undefined, loading |-> TRUE, error |-> Undefined]

\* { data: resourceState.peek().data, loading: true, error: undefined }
LoadingState(s) == [data |-> s.data, loading |-> TRUE, error |-> Undefined]

FailedStateKeepsData(e) ==
  [data |-> resourceState.data, loading |-> FALSE, error |-> Def(e)]

SuccessStateStillLoading(d) == [data |-> Def(d), loading |-> TRUE, error |-> Undefined]

SuccessState(d) == [data |-> Def(d), loading |-> FALSE, error |-> Undefined]

FailedState(e) == [data |-> Undefined, loading |-> FALSE, error |-> Def(e)]

\* resourceState.peek().loading || .data !== undefined || .error !== undefined
NeedsReset(s) == s.loading \/ s.data # Undefined \/ s.error # Undefined

AbortNothing(ts, ac) == ts

\* abortController?.abort()
Abort(ts, ac) == IF ac = 0 THEN ts ELSE [ts EXCEPT ![ac].aborted = TRUE]

NewTask(sourceValue) == [src |-> sourceValue, status |-> "pending", aborted |-> FALSE]

\* runFetcher up to its await: abort the previous controller, install a new
\* one, write the loading state and call the fetcher.
RunFetcherStart(currentFetchId, sourceValue) ==
  /\ tasks' = Abort(tasks, abortController) @@ (currentFetchId :> NewTask(sourceValue))
  /\ abortController' = currentFetchId
  /\ resourceState' = LoadingState(resourceState)
  /\ stateWritten' = TRUE

ResetToIdleKeepsFetchId ==
  /\ tasks' = Abort(tasks, abortController)
  /\ abortController' = 0
  /\ fetchId' = fetchId
  /\ resourceState' = IF NeedsReset(resourceState) THEN Idle ELSE resourceState
  /\ stateWritten' = NeedsReset(resourceState)

ResetToIdleAlwaysWrites ==
  /\ tasks' = Abort(tasks, abortController)
  /\ abortController' = 0
  /\ fetchId' = fetchId + 1
  /\ resourceState' = Idle
  /\ stateWritten' = TRUE

\* The else branch of the effect: the source is invalid, reset the state.
ResetToIdle ==
  /\ tasks' = Abort(tasks, abortController)
  /\ abortController' = 0
  /\ fetchId' = fetchId + 1
  /\ resourceState' = IF NeedsReset(resourceState) THEN Idle ELSE resourceState
  /\ stateWritten' = NeedsReset(resourceState)

\* effect(() => { const sourceValue = sourceFn(); ... })
SourceEffect(sourceValue) ==
  IF IsPresent(sourceValue)
  THEN /\ fetchId' = fetchId + 1
       /\ RunFetcherStart(fetchId + 1, sourceValue)
  ELSE ResetToIdle

RefetchBodyUnchecked(sourceValue) ==
  /\ fetchId' = fetchId + 1
  /\ RunFetcherStart(fetchId + 1, sourceValue)

\* const refetch = () => { const sourceValue = sourceFn(); ... }
RefetchBody(sourceValue) ==
  IF IsPresent(sourceValue)
  THEN /\ fetchId' = fetchId + 1
       /\ RunFetcherStart(fetchId + 1, sourceValue)
  ELSE /\ tasks' = Abort(tasks, abortController)
       /\ abortController' = 0
       /\ fetchId' = fetchId + 1
       /\ resourceState' = IF NeedsReset(resourceState) THEN Idle ELSE resourceState
       /\ stateWritten' = NeedsReset(resourceState)

IsLatestIgnoresId(currentFetchId) == TRUE

\* fetchId === currentFetchId && !controller.signal.aborted
IsLatest(currentFetchId) ==
  fetchId = currentFetchId /\ ~tasks[currentFetchId].aborted

StillLatestIgnoresId(currentFetchId) == TRUE

\* fetchId === currentFetchId (the catch block)
StillLatest(currentFetchId) == fetchId = currentFetchId

IsAbortErrorNever(e) == FALSE

\* error instanceof Error && error.name === "AbortError"
IsAbortError(e) == e = "AbortError"

Pending(id) == id \in DOMAIN tasks /\ tasks[id].status = "pending"

\* runFetcher after its await, the fetcher's promise resolved with d.
RunFetcherResolved(currentFetchId, d) ==
  /\ Pending(currentFetchId)
  /\ tasks' = [tasks EXCEPT ![currentFetchId].status = "resolved"]
  /\ IF IsLatest(currentFetchId)
     THEN resourceState' = SuccessState(d) /\ abortController' = 0 /\ stateWritten' = TRUE
     ELSE UNCHANGED <<resourceState, abortController>> /\ stateWritten' = FALSE
  /\ UNCHANGED <<fetchId, source>>

\* runFetcher's catch block, the fetcher's promise rejected with e.
RunFetcherRejected(currentFetchId, e) ==
  /\ Pending(currentFetchId)
  /\ tasks' = [tasks EXCEPT ![currentFetchId].status = "rejected"]
  /\ IF IsAbortError(e)
     THEN UNCHANGED <<resourceState, abortController>> /\ stateWritten' = FALSE
     ELSE IF StillLatest(currentFetchId)
          THEN resourceState' = FailedState(e) /\ abortController' = 0 /\ stateWritten' = TRUE
          ELSE UNCHANGED <<resourceState, abortController>> /\ stateWritten' = FALSE
  /\ UNCHANGED <<fetchId, source>>

(* ------------------------- Spec: one resource ------------------------- *)
\* The signal sourceFn reads takes a new value; the effect re-runs.
SetSource(v) ==
  /\ fetchId < MaxGen
  /\ v # source
  /\ source' = v
  /\ SourceEffect(v)
  /\ UNCHANGED <<hvars, wvars, evars, svars, ivars, avars>>

Refetch ==
  /\ fetchId < MaxGen
  /\ RefetchBody(source)
  /\ UNCHANGED <<source, hvars, wvars, evars, svars, ivars, avars>>

Resolve(id, d) ==
  /\ RunFetcherResolved(id, d)
  /\ outcome' = outcome @@ (id :> d)
  /\ lastSettled' = id
  /\ UNCHANGED <<thrown, wvars, evars, svars, ivars, avars>>

\* The ways the fetcher fails: its promise rejects, or the call itself throws.
Hows == {"rejected", "threw"}

CaughtRejectionsOnly(how, e) == how = "rejected"

\* try { ... await fetcher(...) ... } catch (error: unknown): the call and the
\* await are both inside the try block, and the catch takes every value.
Caught(how, e) == TRUE

\* The fetcher fails with e.  A throw of the call itself happens inside
\* runFetcher's synchronous part, when the task is the one just started.
Reject(id, e) ==
  /\ Pending(id)
  /\ \E how \in Hows :
       /\ how = "threw" => (id = fetchId /\ ~tasks[id].aborted)
       /\ IF Caught(how, e)
          THEN RunFetcherRejected(id, e) /\ thrown' = thrown
          ELSE /\ tasks' = [tasks EXCEPT ![id].status = "rejected"]
               /\ thrown' = TRUE
               /\ stateWritten' = FALSE
               /\ UNCHANGED <<resourceState, abortController, fetchId, source>>
  /\ outcome' = outcome @@ (id :> e)
  /\ lastSettled' = id
  /\ UNCHANGED <<wvars, evars, svars, ivars, avars>>

NoWindow ==
  /\ current = Undefined
  /\ snapshot = <<>>
  /\ size = 0
  /\ seedDisposed = FALSE
  /\ mergeDisposed = FALSE

\* No merge has read the window's array.
NoArrays == peeked = <<>>

\* No further createResource call.
NoInstances ==
  /\ insts = <<>>
  /\ actor = ""

\* useOrderUpdates and useMidPrice at creation: signal([]), signal(undefined).
NoStreams ==
  /\ orderUpdates = <<>>
  /\ delivered = {}
  /\ mid = Undefined
  /\ lastMids = Undefined
  /\ midThrew = FALSE

NoEffect ==
  /\ cells = <<>>
  /\ currentCleanup = Undefined
  /\ effectDisposed = FALSE
  /\ lastRun = Undefined
  /\ calls = 0
  /\ cleanupCalls = <<>>
  /\ log = <<>>

\* createResource returned: the effect has run once with the first source.
ResourceCreated(sourceValue) ==
  /\ source = sourceValue
  /\ fetchId = 1
  /\ IF IsPresent(sourceValue)
     THEN /\ tasks = (1 :> NewTask(sourceValue))
          /\ abortController = 1
          /\ resourceState = LoadingState(Idle)
          /\ stateWritten = TRUE
     ELSE /\ tasks = <<>>
          /\ abortController = 0
          /\ resourceState = Idle
          /\ stateWritten = FALSE

Init ==
  /\ \E v \in SourceVals : ResourceCreated(v)
  /\ outcome = <<>>
  /\ lastSettled = 0
  /\ thrown = FALSE
  /\ NoWindow
  /\ NoEffect
  /\ NoStreams
  /\ NoArrays
  /\ NoInstances

Next ==
  \/ \E v \in SourceVals : SetSource(v)
  \/ Refetch
  \/ \E id \in 1..MaxGen, d \in DataVals : Resolve(id, d)
  \/ \E id \in 1..MaxGen, e \in ErrVals : Reject(id, e)

Spec == Init /\ [][Next]_vars

(* ---------------------------- definedEffect --------------------------- *)
AllDefinedFirstOnly(values) == Len(values) = 0 \/ values[1] # Undefined

\* !values.some((v) => v === undefined)
AllDefined(values) == \A i \in DOMAIN values : values[i] # Undefined

(* -------------------------- useCandlesSnapshot ------------------------ *)
\* The seed effect's callback: ({ data }) => { ... }
SeedCallbackReseeds(st) ==
  IF st.data # Undefined
  THEN /\ size' = Len(Val(st.data))
       /\ snapshot' = Val(st.data)
       /\ UNCHANGED seedDisposed
  ELSE UNCHANGED <<snapshot, size, seedDisposed>>

SeedCallbackKeepsSize(st) ==
  IF Len(snapshot) # 0
  THEN seedDisposed' = TRUE /\ UNCHANGED <<snapshot, size>>
  ELSE IF st.data # Undefined
       THEN /\ snapshot' = Val(st.data)
            /\ UNCHANGED <<size, seedDisposed>>
       ELSE UNCHANGED <<snapshot, size, seedDisposed>>

SeedCallbackMergesCurrent(st) ==
  IF Len(snapshot) # 0
  THEN seedDisposed' = TRUE /\ UNCHANGED <<snapshot, size>>
  ELSE IF st.data # Undefined
       THEN /\ size' = Len(Val(st.data))
            /\ snapshot' = IF current # Undefined
                           THEN Append(Val(st.data), Val(current))
                           ELSE Val(st.data)
            /\ UNCHANGED seedDisposed
       ELSE UNCHANGED <<snapshot, size, seedDisposed>>

SeedCallback(st) ==
  IF Len(snapshot) # 0
  THEN seedDisposed' = TRUE /\ UNCHANGED <<snapshot, size>>
  ELSE IF st.data # Undefined
       THEN /\ size' = Len(Val(st.data))
            /\ snapshot' = Val(st.data)
            /\ UNCHANGED seedDisposed
       ELSE UNCHANGED <<snapshot, size, seedDisposed>>

\* snapshotResource.state was written: the seed effect runs, if still subscribed.
SeedEffectRun ==
  IF ~seedDisposed /\ AllDefined(<<Def(resourceState')>>)
  THEN SeedCallback(resourceState')
  ELSE UNCHANGED <<snapshot, size, seedDisposed>>

SameCloseTimeNever(s, cur) == FALSE

\* _snapshot.at(-1)?.T === current.T
SameCloseTime(s, cur) == Len(s) # 0 /\ s[Len(s)].T = cur.T

ReplaceLastKeepsOld(s, cur) == s

\* [..._snapshot.slice(0, -1), { ...current }]
ReplaceLast(s, cur) == Append(SubSeq(s, 1, Len(s) - 1), cur)

PushShiftNoEvict(s, cur, sz) == Append(s, cur)

PushShiftDropsNewest(s, cur, sz) ==
  IF Len(s) + 1 > sz THEN s ELSE Append(s, cur)

\* _snapshot.push({ ...current }); _snapshot.length > size && _snapshot.shift()
PushShift(s, cur, sz) ==
  LET pushed == Append(s, cur)
  IN  IF Len(pushed) > sz THEN Tail(pushed) ELSE pushed

\* !_snapshot.length is false: there is initial data.
HasInitialData(s) == Len(s) # 0

MergeCallbackUnguarded(cur) ==
  IF SameCloseTime(snapshot, cur)
  THEN snapshot' = ReplaceLast(snapshot, cur)
  ELSE snapshot' = Append(IF Len(snapshot) > size THEN Tail(snapshot) ELSE snapshot, cur)

\* The merge effect's callback: (current) => { ... }
MergeCallback(cur) ==
  IF ~HasInitialData(snapshot)
  THEN UNCHANGED snapshot
  ELSE IF SameCloseTime(snapshot, cur)
       THEN snapshot' = ReplaceLast(snapshot, cur)
       ELSE snapshot' = PushShift(snapshot, cur, size)

\* $current was written: the merge effect runs, if still subscribed.
MergeEffectRun ==
  IF ~mergeDisposed /\ AllDefined(<<current'>>)
  THEN MergeCallback(Val(current'))
  ELSE UNCHANGED snapshot

CandlesLastNewest(s) == IF Len(s) >= 1 THEN Def(s[Len(s)]) ELSE Undefined

\* useCandlesLast: computed(() => $snapshot.value.at(-2))
CandlesLast(s) == IF Len(s) >= 2 THEN Def(s[Len(s) - 1]) ELSE Undefined

(* -------------------- SpecWindow: useCandlesSnapshot ------------------ *)
\* candleSnapshot resolved with the array d.
WResolve(id, d) ==
  /\ RunFetcherResolved(id, d)
  /\ IF IsLatest(id) THEN SeedEffectRun ELSE UNCHANGED <<snapshot, size, seedDisposed>>
  /\ UNCHANGED <<current, mergeDisposed, hvars, evars, svars, ivars, avars>>

WReject(id, e) ==
  /\ RunFetcherRejected(id, e)
  /\ IF ~IsAbortError(e) /\ StillLatest(id)
     THEN SeedEffectRun
     ELSE UNCHANGED <<snapshot, size, seedDisposed>>
  /\ UNCHANGED <<current, mergeDisposed, hvars, evars, svars, ivars, avars>>

\* snapshotResource.refetch(): the config is a constant, present source.
WRefetch ==
  /\ fetchId < MaxSnapFetch
  /\ RefetchBody(source)
  /\ SeedEffectRun
  /\ UNCHANGED <<source, current, mergeDisposed, hvars, evars, svars, ivars, avars>>

\* The candle stream pushes cur: $current.value = { ...candle }.
LiveUpdate(cur) ==
  /\ current' = Def(cur)
  /\ MergeEffectRun
  /\ UNCHANGED <<size, seedDisposed, mergeDisposed, rvars, hvars, evars, svars, ivars, avars>>

\* $current is set back to undefined.
LiveClear ==
  /\ current # Undefined
  /\ current' = Undefined
  /\ MergeEffectRun
  /\ UNCHANGED <<size, seedDisposed, mergeDisposed, rvars, hvars, evars, svars, ivars, avars>>

\* The returned dispose(): the merge effect's disposer.
WDispose ==
  /\ mergeDisposed' = TRUE
  /\ UNCHANGED <<current, snapshot, size, seedDisposed, rvars, hvars, evars, svars, ivars, avars>>

\* useCandlesSnapshot returned: the resource is loading, both effects have
\* run once and the window is empty.  $current is the fresh signal of
\* useCandlesCurrent; a candle pushed before the snapshot is a LiveUpdate.
InitWindow ==
  /\ ResourceCreated("config")
  /\ outcome = <<>>
  /\ lastSettled = 0
  /\ thrown = FALSE
  /\ current = Undefined
  /\ snapshot = <<>>
  /\ size = 0
  /\ seedDisposed = FALSE
  /\ mergeDisposed = FALSE
  /\ NoEffect
  /\ NoStreams
  /\ NoArrays
  /\ NoInstances

NextWindow ==
  \/ \E id \in 1..MaxSnapFetch, d \in SnapVals : WResolve(id, d)
  \/ \E id \in 1..MaxSnapFetch, e \in ErrVals : WReject(id, e)
  \/ WRefetch
  \/ \E cur \in Candles : LiveUpdate(cur)
  \/ LiveClear
  \/ WDispose

SpecWindow == InitWindow /\ [][NextWindow]_vars

\* values as MapSignalsToDefinedValues<T>: a cast, the values themselves.
DefinedValues(values) == values

\* currentCleanup(): the cleanup of invocation Val(cc) runs once more.
CallCleanup(cc, counts) ==
  IF cc # Undefined THEN [counts EXCEPT ![Val(cc)] = @ + 1] ELSE counts

\* The invocation of the cleanup function cc, as an entry of the log.
CleanupEvents(cc) ==
  IF cc # Undefined
  THEN <<[op |-> "cleanup", id |-> Val(cc), ret |-> FALSE]>>
  ELSE <<>>

\* The n-th invocation of the callback; ret: it returns a cleanup function.
CallEvent(n, ret) == [op |-> "call", id |-> n, ret |-> ret]

EffectRunCallbackFirst(values, cc, n, counts, ret) ==
  IF ~AllDefined(values)
  THEN [currentCleanup |-> Undefined,
        calls |-> n,
        cleanupCalls |-> CallCleanup(cc, counts),
        lastRun |-> [invoked |-> FALSE, args |-> <<>>],
        events |-> CleanupEvents(cc)]
  ELSE [currentCleanup |-> IF ret THEN Def(n + 1) ELSE Undefined,
        calls |-> n + 1,
        cleanupCalls |-> Append(CallCleanup(cc, counts), 0),
        lastRun |-> [invoked |-> TRUE, args |-> DefinedValues(values)],
        events |-> <<CallEvent(n + 1, ret)>> \o CleanupEvents(cc)]

\* One run of the effect's body on the signals' values; ret says whether the
\* callback returns a cleanup function.  The pending cleanup runs first and
\* is cleared, then the callback runs unless some value is undefined.
EffectRun(values, cc, n, counts, ret) ==
  IF ~AllDefined(values)
  THEN [currentCleanup |-> Undefined,
        calls |-> n,
        cleanupCalls |-> CallCleanup(cc, counts),
        lastRun |-> [invoked |-> FALSE, args |-> <<>>],
        events |-> CleanupEvents(cc)]
  ELSE [currentCleanup |-> IF ret THEN Def(n + 1) ELSE Undefined,
        calls |-> n + 1,
        cleanupCalls |-> Append(CallCleanup(cc, counts), 0),
        lastRun |-> [invoked |-> TRUE, args |-> DefinedValues(values)],
        events |-> CleanupEvents(cc) \o <<CallEvent(n + 1, ret)>>]

(* ----------------------- SpecEffect: definedEffect -------------------- *)
\* Signal i takes the new value v; the effect re-runs unless disposed.
SetCell(i, v) ==
  /\ calls < MaxCalls
  /\ v # cells[i]
  /\ cells' = [cells EXCEPT ![i] = v]
  /\ IF effectDisposed
     THEN UNCHANGED <<currentCleanup, calls, cleanupCalls, lastRun, log>>
     ELSE \E ret \in BOOLEAN :
            LET r == EffectRun(cells', currentCleanup, calls, cleanupCalls, ret)
            IN  /\ currentCleanup' = r.currentCleanup
                /\ calls' = r.calls
                /\ cleanupCalls' = r.cleanupCalls
                /\ lastRun' = r.lastRun
                /\ log' = log \o r.events
  /\ UNCHANGED <<effectDisposed, rvars, hvars, wvars, svars, ivars, avars>>

\* The effect's subscription is torn down: preact's dispose().
TeardownEvent == [op |-> "teardown", id |-> 0, ret |-> FALSE]

DisposeEventsTeardownFirst(cc, disposed) ==
  (IF disposed THEN <<>> ELSE <<TeardownEvent>>) \o CleanupEvents(cc)

\* What a call of the returned function does, in order: the pending cleanup,
\* then dispose(), which tears the subscription down the first time.
DisposeEvents(cc, disposed) ==
  CleanupEvents(cc) \o (IF disposed THEN <<>> ELSE <<TeardownEvent>>)

\* The function definedEffect returns: run the cleanup, dispose the effect.
DisposeEffect ==
  /\ currentCleanup # Undefined => cleanupCalls[Val(currentCleanup)] < MaxCleanupCalls
  /\ cleanupCalls' = CallCleanup(currentCleanup, cleanupCalls)
  /\ log' = log \o DisposeEvents(currentCleanup, effectDisposed)
  /\ effectDisposed' = TRUE
  /\ UNCHANGED <<cells, currentCleanup, calls, lastRun, rvars, hvars, wvars, svars, ivars, avars>>

NoResource ==
  /\ source = "undefined"
  /\ resourceState = Idle
  /\ stateWritten = FALSE
  /\ fetchId = 0
  /\ abortController = 0
  /\ tasks = <<>>
  /\ outcome = <<>>
  /\ lastSettled = 0
  /\ thrown = FALSE

\* definedEffect returned: the effect has run once on the signals' values.
InitEffect ==
  /\ cells \in [1..NCells -> CellVals]
  /\ effectDisposed = FALSE
  /\ \E ret \in BOOLEAN :
       LET r == EffectRun(cells, Undefined, 0, <<>>, ret)
       IN  /\ currentCleanup = r.currentCleanup
           /\ calls = r.calls
           /\ cleanupCalls = r.cleanupCalls
           /\ lastRun = r.lastRun
           /\ log = r.events
  /\ NoResource
  /\ NoWindow
  /\ NoStreams
  /\ NoArrays
  /\ NoInstances

NextEffect ==
  \/ \E i \in 1..NCells, v \in CellVals : SetCell(i, v)
  \/ DisposeEffect

SpecEffect == InitEffect /\ [][NextEffect]_vars

(* ------------------------ claims on the resource ---------------------- *)
Settled(id) == id \in DOMAIN tasks /\ tasks[id].status # "pending"

\* The step settles task id (its promise resolves or rejects).
Settles(id) == tasks[id].status = "pending" /\ tasks'[id].status # "pending"

\* The step starts a fetch: runFetcher was called.
StartsFetch == DOMAIN tasks' # DOMAIN tasks

\* The state shows task id's outcome: its data, or its (non-cancellation) error.
Reflects(id) ==
  /\ tasks[id].status = "resolved" => resourceState = SuccessState(outcome[id])
  /\ (tasks[id].status = "rejected" /\ ~IsAbortError(outcome[id]))
       => resourceState = FailedState(outcome[id])

\* C1: race freedom. For two fetches a then b, b the last one issued, once
\* both have settled (in either order) the state is b's outcome: b's data with
\* loading = false, or b's error; a's outcome is not shown.
C1_RaceFreedom ==
  \A a, b \in DOMAIN tasks :
    (a < b /\ b = fetchId /\ Settled(a) /\ Settled(b)) => Reflects(b)

\* a resolved after b did, with other data than b's.
C1_Witness ==
  \E a, b \in DOMAIN tasks :
    /\ a < b /\ b = fetchId /\ lastSettled = a
    /\ tasks[a].status = "resolved" /\ tasks[b].status = "resolved"
    /\ outcome[a] # outcome[b]

\* C2: a task that settles when its id is not fetchId leaves resourceState
\* unchanged: every state write of a task completion is the current task's.
C2_StaleTaskWritesNothing ==
  [][\A id \in DOMAIN tasks :
       (Settles(id) /\ id # fetchId) => resourceState' = resourceState]_vars

\* A superseded task rejected with a real error, after it was superseded.
C2_Witness ==
  \E id \in DOMAIN tasks :
    /\ id < fetchId /\ lastSettled = id /\ tasks[id].aborted
    /\ tasks[id].status = "rejected" /\ ~IsAbortError(outcome[id])

\* C3: when the source becomes absent while a fetch is in flight the state is
\* Idle after that same step, and a task that settles while the source is
\* absent leaves the state unchanged.
C3_AbsenceResets ==
  [][/\ (IsPresent(source) /\ ~IsPresent(source') /\ Pending(fetchId))
          => resourceState' = Idle
     /\ \A id \in DOMAIN tasks :
          (~IsPresent(source) /\ Settles(id)) => resourceState' = resourceState]_vars

\* The fetch in flight when the source became absent has since rejected with
\* a real error, and the state is Idle.
C3_Witness ==
  \E id \in DOMAIN tasks :
    /\ ~IsPresent(source) /\ fetchId = id + 1 /\ lastSettled = id
    /\ tasks[id].status = "rejected" /\ ~IsAbortError(outcome[id])
    /\ resourceState = Idle

\* C4: stale-while-revalidate. A step that starts a fetch sets loading, and a
\* step that ends in a loading state keeps data as it was and leaves error
\* undefined: data survives the entry into Loading and the whole Loading phase.
C4_StaleWhileRevalidate ==
  [][/\ StartsFetch => resourceState'.loading
     /\ resourceState'.loading =>
          /\ resourceState'.data = resourceState.data
          /\ resourceState'.error = Undefined]_vars

\* Loading with the data of an earlier Success, while an older task settled.
C4_Witness ==
  /\ resourceState.loading
  /\ resourceState.data # Undefined
  /\ lastSettled # 0 /\ lastSettled < fetchId /\ tasks[lastSettled].aborted

(* ------------------------- claims on the window ----------------------- *)
\* The step is a write of a candle to $current (no resource step, no dispose).
LiveStep ==
  /\ tasks' = tasks
  /\ mergeDisposed' = mergeDisposed
  /\ current' # Undefined

\* The step is a step of the snapshot resource.
ResourceStep == tasks' # tasks

Last(s) == s[Len(s)]

\* C5: the step that seeds the window gives it the length N of the fetched
\* snapshot, and from then on no step changes the window's length: after
\* every live update (increasing timestamps or not) it is exactly N.
C5_WindowCapacity ==
  [][/\ (Len(snapshot) = 0 /\ Len(snapshot') # 0)
          => /\ resourceState'.data # Undefined
             /\ Len(snapshot') = Len(Val(resourceState'.data))
             /\ size' = Len(snapshot')
     /\ Len(snapshot) # 0 => Len(snapshot') = Len(snapshot)]_vars

\* A full window all of whose candles came from live updates with strictly
\* increasing close times: every seeded candle has been evicted.
C5_Witness ==
  /\ Len(snapshot) = MaxSnap
  /\ size = MaxSnap
  /\ \A i \in 1..Len(snapshot) : snapshot[i].c = "y"
  /\ \A i \in 1..(Len(snapshot) - 1) : snapshot[i].T < snapshot[i + 1].T

\* C6: a live update whose close time equals that of the window's last
\* element replaces that element: same length, the last element is the
\* update's value, all elements before it unchanged.  So the windows after two
\* consecutive updates of one close time differ in the last element only.
C6_OpenPeriodReplace ==
  [][(/\ LiveStep /\ ~mergeDisposed /\ Len(snapshot) # 0
      /\ Last(snapshot).T = Val(current').T)
       => /\ Len(snapshot') = Len(snapshot)
          /\ Last(snapshot') = Val(current')
          /\ \A i \in 1..(Len(snapshot) - 1) : snapshot'[i] = snapshot[i]]_vars

\* The last element was replaced by a live candle of its own close time.
C6_Witness ==
  /\ Len(snapshot) >= 2
  /\ current = Def(Last(snapshot))
  /\ Last(snapshot).c = "y"
  /\ snapshot[Len(snapshot) - 1] = [T |-> Last(snapshot).T, c |-> "x"]

\* C7: a live update whose close time differs from that of the last element
\* of a window at capacity gives the old window without its first element,
\* followed by the update's value.
C7_ClosedPeriodAppendEvict ==
  [][(/\ LiveStep /\ ~mergeDisposed /\ Len(snapshot) # 0
      /\ Len(snapshot) = size
      /\ Last(snapshot).T # Val(current').T)
       => snapshot' = Append(Tail(snapshot), Val(current'))]_vars

\* An element that is not the last came from a live update: it was appended,
\* and a later append moved it down.
C7_Witness ==
  /\ Len(snapshot) >= 2
  /\ Len(snapshot) = size
  /\ snapshot[1].c = "y"
  /\ snapshot[1].T # Last(snapshot).T
  /\ current = Def(Last(snapshot))

\* C8: once the window is non-empty no step of the snapshot resource (a
\* refetch, a resolution with other data, a rejection) changes the window or
\* the capacity.
C8_SeedOnce ==
  [][(Len(snapshot) # 0 /\ ResourceStep)
       => (snapshot' = snapshot /\ size' = size)]_vars

\* The window is seeded and a later refetch has resolved with an array of
\* another length.
C8_Witness ==
  /\ Len(snapshot) # 0
  /\ fetchId >= 2
  /\ tasks[fetchId].status = "resolved"
  /\ resourceState.data # Undefined
  /\ Len(Val(resourceState.data)) # Len(snapshot)

\* C9: while the window is empty a live update leaves it empty.
C9_NoMergeBeforeSeed ==
  [][(Len(snapshot) = 0 /\ ~ResourceStep) => snapshot' = <<>>]_vars

\* A candle was pushed while the snapshot fetch is still pending.
C9_Witness ==
  /\ snapshot = <<>>
  /\ Pending(1)
  /\ current = Def([T |-> 2, c |-> "y"])

(* ------------------------- claims on the effect ----------------------- *)
EveryCellDefined(cs) == \A i \in 1..Len(cs) : cs[i] # Undefined

\* The step is a run of the effect: a tracked signal changed while subscribed.
EffectRuns == cells' # cells /\ ~effectDisposed

\* The step invokes the callback.
Invokes == calls' = calls + 1

\* C10: on the run at creation and on every run a change of a tracked signal
\* triggers, the callback is invoked if and only if every tracked signal's
\* value is defined, and its arguments are exactly those values.
C10_Definedness ==
  /\ (calls = 1 <=> EveryCellDefined(cells))
  /\ (calls # 1 => calls = 0)
  /\ (calls = 1 => lastRun = [invoked |-> TRUE, args |-> cells])
  /\ [][EffectRuns =>
          /\ Invokes <=> EveryCellDefined(cells')
          /\ ~Invokes => (calls' = calls /\ ~lastRun'.invoked)
          /\ Invokes => lastRun' = [invoked |-> TRUE, args |-> cells']]_vars

\* The callback ran twice, then a signal became undefined while the other is
\* defined and the run did not invoke it.
C10_Witness ==
  /\ calls = 2
  /\ ~lastRun.invoked
  /\ ~effectDisposed
  /\ cells[1] # Undefined
  /\ cells[2] = Undefined

\* The invocations whose side effect is live after the first j entries of the
\* log: the callback returned a cleanup and that cleanup has not run since.
LiveAfter(j) ==
  {log[i].id : i \in {i \in 1..j :
      /\ log[i].op = "call" /\ log[i].ret
      /\ \A k \in (i + 1)..j : ~(log[k].op = "cleanup" /\ log[k].id = log[i].id)}}

\* C11: at every point of the history at most one invocation's side effect is
\* live, so the cleanup an invocation returned has run before the next
\* invocation starts; and a run in which some tracked signal is undefined
\* invokes the pending cleanup, clears it, and does not invoke the callback.
C11_CleanupOrdering ==
  /\ [](\A j \in 0..Len(log) : Cardinality(LiveAfter(j)) <= 1)
  /\ [][(EffectRuns /\ ~EveryCellDefined(cells'))
          => /\ log' = log \o (IF currentCleanup # Undefined
                               THEN <<[op |-> "cleanup", id |-> currentCleanup[1], ret |-> FALSE]>>
                               ELSE <<>>)
             /\ currentCleanup' = Undefined]_vars

\* Two invocations with the first one's cleanup between them, then a run that
\* only cleaned up after the second.
C11_Witness ==
  /\ Len(log) = 4
  /\ log[1] = [op |-> "call", id |-> 1, ret |-> TRUE]
  /\ log[2] = [op |-> "cleanup", id |-> 1, ret |-> FALSE]
  /\ log[3] = [op |-> "call", id |-> 2, ret |-> TRUE]
  /\ log[4] = [op |-> "cleanup", id |-> 2, ret |-> FALSE]
  /\ ~effectDisposed

\* The step is a call of the function definedEffect returned.
DisposeStep == cells' = cells

\* C12: a call of dispose() after the first one changes nothing: no cleanup
\* is invoked by it.
C12_DisposeIdempotent ==
  [][(effectDisposed /\ DisposeStep)
       => UNCHANGED <<log, cleanupCalls, currentCleanup, effectDisposed>>]_vars

\* C13: once dispose() of the window has been called, no step changes the
\* window: not a live update, not the snapshot fetch completing.
C13_FrozenAfterDispose ==
  [][mergeDisposed => snapshot' = snapshot]_vars

\* C14: a task that rejects with the cancellation signal (an error named
\* AbortError) leaves the resource state as it is, whichever generation the
\* task belongs to, and the state's error never holds the cancellation signal.
C14_AbortNeverSurfaced ==
  /\ [](resourceState.error # Def("AbortError"))
  /\ [][\A id \in DOMAIN tasks :
          (Settles(id) /\ tasks'[id].status = "rejected" /\ outcome'[id] = "AbortError")
            => resourceState' = resourceState]_vars

\* The current task and a superseded task both rejected with AbortError.
C14_Witness ==
  /\ fetchId = 2
  /\ resourceState.loading
  /\ DOMAIN outcome = {1, 2}
  /\ outcome[1] = "AbortError" /\ outcome[2] = "AbortError"

\* The step is a source change or a refetch() that finds the source present.
TriggersFetch == fetchId' = fetchId + 1 /\ IsPresent(source')

\* C15: when the fetch of the current generation rejects with an error that
\* is not the cancellation signal, the state becomes Failed(e): loading false,
\* no data, error = e.  A task settles once, so its error is written at most
\* once; a settling task starts no fetch; the fetcher is invoked exactly once
\* per source change or refetch with a present source and never otherwise.
C15_FailedNoRetry ==
  [][/\ \A id \in DOMAIN tasks :
          /\ (Settles(id) /\ id = fetchId /\ tasks'[id].status = "rejected"
                /\ ~IsAbortError(outcome'[id]))
               => resourceState' = [data |-> Undefined, loading |-> FALSE,
                                    error |-> Def(outcome'[id])]
          /\ Settles(id) => (DOMAIN tasks' = DOMAIN tasks /\ fetchId' = fetchId)
          /\ ~Pending(id) => (id \in DOMAIN tasks' /\ tasks'[id].status = tasks[id].status)
     /\ StartsFetch <=> TriggersFetch
     /\ StartsFetch => DOMAIN tasks' = DOMAIN tasks \cup {fetchId'}]_vars

\* The current fetch failed while data of an earlier fetch was shown, and
\* nothing is in flight afterwards.
C15_Witness ==
  /\ fetchId = 2 /\ lastSettled = 2
  /\ DOMAIN tasks = {1, 2}
  /\ tasks[1].status = "resolved" /\ ~tasks[1].aborted
  /\ tasks[2].status = "rejected"
  /\ resourceState = [data |-> Undefined, loading |-> FALSE, error |-> Def("e1")]

\* The step is a call of refetch(): the source keeps its value and the
\* generation counter moves.
RefetchStep == source' = source /\ fetchId' # fetchId

\* C16: refetch() does what the source effect does when it runs on the current
\* source value.  Source present: the generation is incremented, the
\* outstanding task's token is cancelled, the state becomes Loading with the
\* data kept, and exactly one fetch starts.  Source absent: the outstanding
\* task is cancelled, the generation is incremented, the state is Idle and no
\* fetch starts.
C16_RefetchIsSourceChange ==
  [][RefetchStep =>
       /\ SourceEffect(source)
       /\ fetchId' = fetchId + 1
       /\ abortController # 0 => tasks'[abortController].aborted
       /\ IF IsPresent(source)
          THEN /\ resourceState' = [data |-> resourceState.data, loading |-> TRUE,
                                    error |-> Undefined]
               /\ DOMAIN tasks' = DOMAIN tasks \cup {fetchId'}
               /\ tasks'[fetchId'].status = "pending" /\ ~tasks'[fetchId'].aborted
          ELSE /\ resourceState' = Idle
               /\ DOMAIN tasks' = DOMAIN tasks]_vars

\* A refetch with a present source superseded the pending task of the same
\* source value while data of no earlier fetch was there.
C16_Witness ==
  /\ DOMAIN tasks = {1, 2}
  /\ fetchId = 2
  /\ tasks[1].src = source /\ tasks[2].src = source
  /\ tasks[1].aborted /\ tasks[1].status = "pending"
  /\ tasks[2].status = "pending"
  /\ resourceState.loading

\* C17: whenever the state is loading, the task of the current generation has
\* been started and has not settled, however the fetches settle (resolve,
\* reject with an error, reject with the cancellation signal).
C17_LoadingHasTask ==
  resourceState.loading => Pending(fetchId)

\* The step takes defined data away from the state.
ClearsData == resourceState.data # Undefined /\ resourceState'.data = Undefined

\* The step is the Failed transition of the current generation's fetch.
FailedTransition ==
  \E id \in DOMAIN tasks :
    /\ Settles(id) /\ id = fetchId
    /\ tasks'[id].status = "rejected" /\ ~IsAbortError(outcome'[id])

\* The step is the reset a source change or refetch() does when it finds the
\* source absent.
AbsentReset ==
  fetchId' = fetchId + 1 /\ ~IsPresent(source') /\ resourceState' = Idle

\* C18 as stated: once data is defined, only a Failed transition of the
\* current generation's fetch makes it undefined.
C18_OnlyFailureClearsData ==
  [][ClearsData => FailedTransition]_vars

\* C18 amended: once data is defined, only a Failed transition of the current
\* generation's fetch or the reset to Idle on an absent source makes it
\* undefined; entering Loading, a stale completion, a change to a present
\* source and a refetch with a present source keep it.
C18_FailureOrAbsenceClearsData ==
  [][ClearsData => (FailedTransition \/ AbsentReset)]_vars

\* Data of the last settled fetch was shown and an absent source reset it.
C18_Witness ==
  /\ resourceState = Idle
  /\ ~IsPresent(source)
  /\ lastSettled # 0
  /\ tasks[lastSettled].status = "resolved"
  /\ ~tasks[lastSettled].aborted
  /\ lastSettled < fetchId

\* C19: a source value of numeric 0 is falsy and is treated as absent: no
\* fetch is started for it and the state is Idle while it is the source.
C19_ZeroIsAbsent ==
  /\ source = "0" => resourceState = Idle
  /\ \A id \in DOMAIN tasks : tasks[id].src # "0"

OpenPeriodReplace ==
  /\ LiveStep /\ ~mergeDisposed /\ Len(snapshot) # 0
  /\ Last(snapshot).T = Val(current').T

\* The step is a live update the merge effect handles as a closed period.
ClosedPeriodAppend ==
  /\ LiveStep /\ ~mergeDisposed /\ Len(snapshot) # 0
  /\ Last(snapshot).T # Val(current').T

\* $last is the element at index length-2 of the window, undefined while the
\* window is shorter than 2.
LastIsSecondToLast ==
  /\ Len(snapshot) < 2 => CandlesLast(snapshot) = Undefined
  /\ Len(snapshot) >= 2 => CandlesLast(snapshot) = <<snapshot[Len(snapshot) - 1]>>

\* C21 as stated: $last is the window element at index length-2, undefined
\* while the window is shorter than 2; an open-period replace leaves it
\* unchanged, and after a closed-period append it is the element that was
\* last before the append.
C21_LastClosed ==
  /\ []LastIsSecondToLast
  /\ [][/\ OpenPeriodReplace => CandlesLast(snapshot') = CandlesLast(snapshot)
        /\ ClosedPeriodAppend => CandlesLast(snapshot') = <<Last(snapshot)>>]_vars

\* C21 amended: as above, but after a closed-period append $last is the
\* element that was last before the append only when the window holds at
\* least two elements; in a window of capacity 1 it stays undefined.
C21_LastClosedFromTwo ==
  /\ []LastIsSecondToLast
  /\ [][/\ OpenPeriodReplace => CandlesLast(snapshot') = CandlesLast(snapshot)
        /\ ClosedPeriodAppend =>
             CandlesLast(snapshot') = (IF Len(snapshot) >= 2 THEN <<Last(snapshot)>>
                                       ELSE Undefined)]_vars

\* Two closed-period appends in a window of two: $last is the candle the
\* first of them appended.
C21_Witness ==
  /\ Len(snapshot) = 2 /\ size = 2
  /\ current = Def(Last(snapshot))
  /\ CandlesLast(snapshot) = Def([T |-> 2, c |-> "y"])
  /\ Last(snapshot).T = 3

\* The step settles a task: a fetcher's promise resolves or rejects.
SettleStep == \E id \in DOMAIN tasks : Settles(id)

\* C22: the generation counter never decreases; a step that settles a task
\* leaves it as it is, and every other step of the resource, a source change
\* to a present or absent value or a call of refetch(), adds exactly one.
C22_GenerationCounter ==
  [][/\ fetchId' >= fetchId
     /\ IF SettleStep THEN fetchId' = fetchId ELSE fetchId' = fetchId + 1
     /\ source' # source => fetchId' = fetchId + 1]_vars

\* Two triggers after creation, the last one a change to an absent source,
\* with a task settled before it.
C22_Witness ==
  /\ fetchId = 3
  /\ ~IsPresent(source)
  /\ lastSettled = 2
  /\ DOMAIN tasks = {1, 2}

(* ----------- SpecStreams: useOrderUpdates and useMidPrice ------------- *)
\* OrderStatus<Order>: the order (its oid) and its status.
Orders ==
  { [oid |-> 1, status |-> "open"], [oid |-> 2, status |-> "filled"],
    [oid |-> 3, status |-> "canceled"], [oid |-> 4, status |-> "open"] }

\* The arrays one push of the orderUpdates stream carries.
OrderPushes == UNION {[1..n -> Orders] : n \in 0..MaxPush}

Range(s) == {s[i] : i \in 1..Len(s)}

\* (orders) => ($orderUpdates.value = [...orders])
OrderUpdatesCallback(orders) == orderUpdates' = orders

\* $orderUpdates.value.filter((v) => v.status === "open")
Open(s) == SelectSeq(s, LAMBDA v : v.status = "open")

\* $orderUpdates.value.filter((v) => v.status === "filled")
Fills(s) == SelectSeq(s, LAMBDA v : v.status = "filled")

\* The stream pushes the array orders to the subscription's callback.
OrderPush(orders) ==
  /\ OrderUpdatesCallback(orders)
  /\ delivered' = delivered \cup Range(orders)
  /\ UNCHANGED <<mid, lastMids, midThrew, rvars, hvars, wvars, evars, ivars, avars>>

\* The strings the allMids stream carries for a coin.
MidStrings == {"0", "1.5", "2", "2.0"}

\* mids[config.coin]: undefined when the payload has no entry for the coin.
MidEntries == {Undefined} \cup {Def(x) : x \in MidStrings}

\* !maybeMid
IsFalsy(maybeMid) == maybeMid = Undefined \/ Val(maybeMid) = ""

\* +maybeMid, the number in thousandths.
ToNumber(str) ==
  CASE str = "0" -> 0
    [] str = "1.5" -> 1500
    [] str = "2" -> 2000
    [] str = "2.0" -> 2000

MidCallbackAbsorbs(maybeMid) ==
  IF IsFalsy(maybeMid)
  THEN midThrew' = FALSE /\ mid' = Undefined
  ELSE midThrew' = FALSE /\ mid' = Def(ToNumber(Val(maybeMid)))

\* (mids) => { const maybeMid = mids[config.coin]; if (!maybeMid) throw ...;
\*             $mid.value = +maybeMid; }
MidCallback(maybeMid) ==
  IF IsFalsy(maybeMid)
  THEN midThrew' = TRUE /\ mid' = mid
  ELSE midThrew' = FALSE /\ mid' = Def(ToNumber(Val(maybeMid)))

\* The allMids stream pushes a payload whose entry for the coin is maybeMid.
MidPush(maybeMid) ==
  /\ MidCallback(maybeMid)
  /\ lastMids' = maybeMid
  /\ UNCHANGED <<orderUpdates, delivered, rvars, hvars, wvars, evars, ivars, avars>>

InitStreams ==
  /\ NoResource
  /\ NoWindow
  /\ NoEffect
  /\ NoStreams
  /\ NoArrays
  /\ NoInstances

NextStreams ==
  \/ \E orders \in OrderPushes : OrderPush(orders)
  \/ \E maybeMid \in MidEntries : MidPush(maybeMid)

SpecStreams == InitStreams /\ [][NextStreams]_vars

\* C23: $orderUpdates holds every order update the stream has delivered
\* since the subscription was created, and $open and $fills are exactly its
\* elements with status "open" and "filled", in its order.
C23_OrderUpdatesAccumulate ==
  /\ \A o \in delivered : o \in Range(orderUpdates)
  /\ Range(Open(orderUpdates)) = {o \in Range(orderUpdates) : o.status = "open"}
  /\ Range(Fills(orderUpdates)) = {o \in Range(orderUpdates) : o.status = "filled"}

\* The step is a push of the allMids stream.
MidStep == orderUpdates' = orderUpdates /\ delivered' = delivered

\* C24: a push whose payload has no entry for the configured coin makes the
\* callback throw and leaves $mid as it was; a push that has the entry sets
\* $mid to the entry's numeric value and does not throw.
C24_MidPrice ==
  [][MidStep =>
       IF lastMids' = Undefined
       THEN midThrew' /\ mid' = mid
       ELSE /\ ~midThrew'
            /\ lastMids' = <<"0">> => mid' = <<0>>
            /\ lastMids' = <<"1.5">> => mid' = <<1500>>
            /\ lastMids' \in {<<"2">>, <<"2.0">>} => mid' = <<2000>>]_vars

\* A payload without the coin arrived after the price 1.5 had been stored.
C24_Witness ==
  /\ midThrew
  /\ lastMids = Undefined
  /\ mid = Def(1500)

\* The step is the Success transition of task id: it resolves while it is
\* the current generation and its token is not cancelled.
SuccessTransition(id) ==
  /\ Settles(id) /\ tasks'[id].status = "resolved"
  /\ id = fetchId /\ ~tasks[id].aborted

\* C25: when the fetch of the current generation resolves with a token that
\* is not cancelled, the state becomes {data: the resolved value, loading:
\* false, error: undefined}.  Resolved data enters the state only in such a
\* step, and a task settles once, so at most once per generation.
C25_SuccessTransition ==
  [][/\ \A id \in DOMAIN tasks :
          /\ SuccessTransition(id)
               => resourceState' = [data |-> <<outcome'[id]>>, loading |-> FALSE,
                                    error |-> Undefined]
          /\ tasks[id].status = "resolved" => ~Settles(id) /\ tasks'[id].status = "resolved"
     /\ (resourceState'.data # Undefined /\ resourceState'.data # resourceState.data)
          => \E id \in DOMAIN tasks : SuccessTransition(id)]_vars

\* The second generation's fetch resolved with d2 after the first one's d1
\* had been shown.
C25_Witness ==
  /\ fetchId = 2 /\ lastSettled = 2
  /\ DOMAIN tasks = {1, 2}
  /\ tasks[1].status = "resolved" /\ ~tasks[1].aborted /\ outcome[1] = "d1"
  /\ resourceState = [data |-> Def("d2"), loading |-> FALSE, error |-> Undefined]

\* C26: a step that starts a new fetch or finds the source absent cancels the
\* token of every fetch that was outstanding before it.  Cancelling settles
\* no task and writes no state: the state after the step is the Loading
\* write (source present) or the Idle write (source absent), nothing else.
C26_TokenCancellation ==
  [][fetchId' # fetchId =>
       /\ \A id \in DOMAIN tasks :
            /\ Pending(id) => tasks'[id].aborted
            /\ tasks'[id].status = tasks[id].status
       /\ IF IsPresent(source')
          THEN resourceState' = [data |-> resourceState.data, loading |-> TRUE,
                                 error |-> Undefined]
          ELSE resourceState' = [data |-> Undefined, loading |-> FALSE,
                                 error |-> Undefined]]_vars

\* The source became absent while the first fetch was outstanding: its token
\* is cancelled, the task itself has not settled.
C26_Witness ==
  /\ fetchId = 2
  /\ DOMAIN tasks = {1}
  /\ tasks[1].status = "pending" /\ tasks[1].aborted
  /\ ~IsPresent(source)
  /\ resourceState = Idle

\* The step is a source change or a refetch() that finds the source absent.
AbsentStep == fetchId' # fetchId /\ ~IsPresent(source')

\* C27: when the source is absent (at creation, on a source change, on
\* refetch) and the state already has loading = false, no data and no error,
\* the state cell is not assigned, and the generation counter is incremented
\* all the same; otherwise the state is set to exactly {loading: false}.
C27_IdleResetNotRedundant ==
  /\ (fetchId = 1 /\ ~IsPresent(source)) => (~stateWritten /\ resourceState = Idle)
  /\ [][AbsentStep =>
          /\ fetchId' = fetchId + 1
          /\ IF resourceState = [data |-> Undefined, loading |-> FALSE, error |-> Undefined]
             THEN ~stateWritten' /\ resourceState' = resourceState
             ELSE /\ stateWritten'
                  /\ resourceState' = [data |-> Undefined, loading |-> FALSE,
                                       error |-> Undefined]]_vars

\* A fetch was started, the source became absent (reset written), and a
\* further absent trigger found the state idle and wrote nothing.
C27_Witness ==
  /\ fetchId = 3
  /\ DOMAIN tasks = {1}
  /\ lastSettled = 0
  /\ ~IsPresent(source)
  /\ ~stateWritten
  /\ resourceState = Idle

\* C28: the window is the empty sequence until the snapshot resource holds
\* data; the step that gives the resource data while the window is empty
\* makes the window an element-wise equal copy of the fetched array and the
\* capacity that array's length; a window that has become non-empty stays
\* non-empty with its capacity, so its length leaves 0 at most once.
C28_Seeding ==
  /\ []((\A id \in DOMAIN tasks : tasks[id].status # "resolved") => snapshot = <<>>)
  /\ [][/\ (Len(snapshot) = 0 /\ stateWritten' /\ resourceState'.data # Undefined)
             => /\ Len(snapshot') = Len(resourceState'.data[1])
                /\ \A i \in 1..Len(snapshot') : snapshot'[i] = resourceState'.data[1][i]
                /\ size' = Len(resourceState'.data[1])
        /\ (Len(snapshot) = 0 /\ resourceState'.data = Undefined) => snapshot' = <<>>
        /\ Len(snapshot) # 0 => (Len(snapshot') # 0 /\ size' = size)]_vars

\* The snapshot fetch resolved with two candles and no live update has
\* arrived: the window is that array and the capacity is 2.
C28_Witness ==
  /\ fetchId = 1
  /\ tasks[1].status = "resolved"
  /\ Len(snapshot) = 2 /\ size = 2
  /\ resourceState.data = Def(snapshot)
  /\ current = Undefined

\* C29: in every reachable state, state.data and state.error are not both
\* defined.
C29_DataErrorExclusive ==
  ~(resourceState.data # Undefined /\ resourceState.error # Undefined)

\* Data of the first fetch had been shown when a later fetch failed: the
\* state holds the error and no data.
C29_Witness ==
  /\ 1 \in DOMAIN tasks /\ tasks[1].status = "resolved" /\ ~tasks[1].aborted
  /\ fetchId = 3 /\ lastSettled = 3
  /\ resourceState.error = Def("e1")
  /\ resourceState.data = Undefined

\* C30: the call of dispose() that tears the subscription down invokes the
\* pending cleanup, if there is one, before the teardown; after it no change
\* of a tracked signal invokes the callback or a cleanup.
C30_Disposal ==
  [][/\ (~effectDisposed /\ effectDisposed')
          => log' = log \o (IF currentCleanup # Undefined
                            THEN <<[op |-> "cleanup", id |-> currentCleanup[1], ret |-> FALSE]>>
                            ELSE <<>>)
                        \o <<[op |-> "teardown", id |-> 0, ret |-> FALSE]>>
     /\ (effectDisposed /\ cells' # cells)
          => (log' = log /\ calls' = calls /\ cleanupCalls' = cleanupCalls
                /\ lastRun' = lastRun)]_vars

\* dispose() ran the first invocation's cleanup and tore the effect down; a
\* signal was set to undefined afterwards and nothing was invoked.
C30_Witness ==
  /\ effectDisposed
  /\ log = <<[op |-> "call", id |-> 1, ret |-> TRUE],
             [op |-> "cleanup", id |-> 1, ret |-> FALSE],
             [op |-> "teardown", id |-> 0, ret |-> FALSE]>>
  /\ \E i \in DOMAIN cells : cells[i] = Undefined
  /\ lastRun.invoked

\* C31: after every live update the merge effect processes while the window
\* is non-empty, the window's last element is that update's value.
C31_LastIsOpenPeriod ==
  [][(LiveStep /\ ~mergeDisposed /\ Len(snapshot) # 0)
       => (Len(snapshot') # 0 /\ snapshot'[Len(snapshot')] = current'[1])]_vars

\* A window of capacity 1 whose only element is a live update with a close
\* time the snapshot did not have.
C31_Witness ==
  /\ size = 1 /\ Len(snapshot) = 1
  /\ current = Def(snapshot[1])
  /\ snapshot[1].c = "y"
  /\ resourceState.data # Undefined
  /\ Val(resourceState.data)[1].T # snapshot[1].T

\* C33: every started and unsettled task of a generation older than the
\* current one has a cancelled token; an unsettled task whose token is not
\* cancelled is the task of the current generation, so there is at most one.
C33_OneLiveToken ==
  /\ \A id \in DOMAIN tasks : (Pending(id) /\ id < fetchId) => tasks[id].aborted
  /\ \A id \in DOMAIN tasks : (Pending(id) /\ ~tasks[id].aborted) => id = fetchId
  /\ Cardinality({id \in DOMAIN tasks : Pending(id) /\ ~tasks[id].aborted}) <= 1

\* Three fetches outstanding: the two older ones with cancelled tokens, the
\* current one with a live token.
C33_Witness ==
  /\ fetchId = 3
  /\ DOMAIN tasks = {1, 2, 3}
  /\ \A id \in {1, 2} : tasks[id].status = "pending" /\ tasks[id].aborted
  /\ tasks[3].status = "pending" /\ ~tasks[3].aborted

\* C34: each cleanup function a callback invocation returned is invoked at
\* most once, over every sequence of signal changes and dispose() calls.
C34_CleanupAtMostOnce ==
  \A k \in DOMAIN cleanupCalls : cleanupCalls[k] <= 1

(* ------------------ SpecPair: two resources side by side -------------- *)
\* The names of two createResource calls.
Instances == {"A", "B"}
\* The values their source functions return: an absent one and a present one.
PairSources == {"undefined", "a"}

\* What createResource's closure holds after it returned: let fetchId, let
\* abortController, the state signal, and the runFetcher invocations so far.
Created(v) ==
  IF IsPresent(v)
  THEN [source |-> v, resourceState |-> LoadingState(Idle), fetchId |-> 1,
        abortController |-> 1, tasks |-> (1 :> NewTask(v))]
  ELSE [source |-> v, resourceState |-> Idle, fetchId |-> 1,
        abortController |-> 0, tasks |-> <<>>]

\* The effect's body on the closure r, the source function returning v.
EffectOn(r, v) ==
  IF IsPresent(v)
  THEN [source |-> v,
        resourceState |-> LoadingState(r.resourceState),
        fetchId |-> r.fetchId + 1,
        abortController |-> r.fetchId + 1,
        tasks |-> Abort(r.tasks, r.abortController)
                    @@ ((r.fetchId + 1) :> NewTask(v))]
  ELSE [source |-> v,
        resourceState |-> IF NeedsReset(r.resourceState) THEN Idle
                          ELSE r.resourceState,
        fetchId |-> r.fetchId + 1,
        abortController |-> 0,
        tasks |-> Abort(r.tasks, r.abortController)]

\* refetch() on the closure r: the same steps on the source's present value.
RefetchOn(r) == EffectOn(r, r.source)

\* runFetcher after its await on the closure r, the promise resolved with d.
ResolvedOn(r, id, d) ==
  LET latest == r.fetchId = id /\ ~r.tasks[id].aborted
  IN  [r EXCEPT !.tasks[id].status = "resolved",
                !.resourceState = IF latest THEN SuccessState(d) ELSE @,
                !.abortController = IF latest THEN 0 ELSE @]

\* runFetcher's catch block on the closure r, the promise rejected with e.
RejectedOn(r, id, e) ==
  LET writes == ~IsAbortError(e) /\ r.fetchId = id
  IN  [r EXCEPT !.tasks[id].status = "rejected",
                !.resourceState = IF writes THEN FailedState(e) ELSE @,
                !.abortController = IF writes THEN 0 ELSE @]

UpdateSharedCounter(i, r) ==
  [j \in DOMAIN insts |->
     IF j = i THEN r ELSE [insts[j] EXCEPT !.fetchId = r.fetchId]]

\* resourceState, fetchId and abortController are locals of one createResource
\* call: an operation of resource i replaces i's closure and no other.
Update(i, r) == [insts EXCEPT ![i] = r]

InstPending(i, id) ==
  id \in DOMAIN insts[i].tasks /\ insts[i].tasks[id].status = "pending"

InstSetSource(i, v) ==
  /\ i \in DOMAIN insts
  /\ insts[i].fetchId < MaxPairGen
  /\ v # insts[i].source
  /\ insts' = Update(i, EffectOn(insts[i], v))
  /\ actor' = i
  /\ UNCHANGED <<rvars, hvars, wvars, evars, svars, avars>>

InstRefetch(i) ==
  /\ i \in DOMAIN insts
  /\ insts[i].fetchId < MaxPairGen
  /\ insts' = Update(i, RefetchOn(insts[i]))
  /\ actor' = i
  /\ UNCHANGED <<rvars, hvars, wvars, evars, svars, avars>>

InstResolve(i, id, d) ==
  /\ i \in DOMAIN insts
  /\ InstPending(i, id)
  /\ insts' = Update(i, ResolvedOn(insts[i], id, d))
  /\ actor' = i
  /\ UNCHANGED <<rvars, hvars, wvars, evars, svars, avars>>

InstReject(i, id, e) ==
  /\ i \in DOMAIN insts
  /\ InstPending(i, id)
  /\ insts' = Update(i, RejectedOn(insts[i], id, e))
  /\ actor' = i
  /\ UNCHANGED <<rvars, hvars, wvars, evars, svars, avars>>

InitPair ==
  /\ insts \in [Instances -> {Created(v) : v \in PairSources}]
  /\ actor = ""
  /\ NoResource
  /\ NoWindow
  /\ NoEffect
  /\ NoStreams
  /\ NoArrays

NextPair ==
  \/ \E i \in Instances, v \in PairSources : InstSetSource(i, v)
  \/ \E i \in Instances : InstRefetch(i)
  \/ \E i \in Instances, id \in 1..MaxPairGen, d \in DataVals : InstResolve(i, id, d)
  \/ \E i \in Instances, id \in 1..MaxPairGen, e \in ErrVals : InstReject(i, id, e)

SpecPair == InitPair /\ [][NextPair]_vars

\* C32: two resources share no state: a source change, a refetch or a task
\* completion of one resource leaves every other resource's state cell,
\* generation counter and current token (and its tasks) as they were.
C32_NoSharedState ==
  [][\A j \in DOMAIN insts :
       j # actor' =>
         /\ insts'[j].resourceState = insts[j].resourceState
         /\ insts'[j].fetchId = insts[j].fetchId
         /\ insts'[j].abortController = insts[j].abortController
         /\ insts'[j].tasks = insts[j].tasks]_vars

\* A has moved on to its second generation and its fetch has resolved, while
\* B still loads its first fetch.
C32_Witness ==
  /\ DOMAIN insts = Instances
  /\ actor = "A"
  /\ insts["A"].fetchId = 2
  /\ insts["A"].resourceState.data # Undefined
  /\ insts["B"].fetchId = 1
  /\ insts["B"].resourceState.loading
  /\ insts["B"].abortController = 1

\* No two adjacent elements of s have the same close time.
NoAdjacentEqual(s) == \A i \in 1..(Len(s) - 1) : s[i].T # s[i + 1].T

\* The close times of s are strictly increasing.
StrictlyIncreasing(s) == \A i \in 1..(Len(s) - 1) : s[i].T < s[i + 1].T

\* What the step's window comes from: the fetched array when the step seeds
\* the window, the window before the step otherwise.
WindowBase ==
  IF Len(snapshot) = 0 /\ Len(snapshot') # 0 THEN Val(resourceState'.data)
  ELSE snapshot

\* A live update the step's merge handles is not older than the last element.
LiveInOrder ==
  (LiveStep /\ ~mergeDisposed /\ Len(snapshot) # 0)
    => Val(current').T >= Last(snapshot).T

\* C35: window ordering.  A step leaves the window without two adjacent
\* elements of one close time if what it starts from (the fetched array when
\* it seeds, the window otherwise) has none; and it leaves the window's close
\* times strictly increasing if what it starts from is strictly increasing and
\* the live update it merges is not older than the window's last element.
C35_WindowOrdering ==
  [][/\ NoAdjacentEqual(WindowBase) => NoAdjacentEqual(snapshot')
     /\ (StrictlyIncreasing(WindowBase) /\ LiveInOrder)
          => StrictlyIncreasing(snapshot')]_vars

\* A window of three periods' worth of updates: seeded with close times 1 and
\* 2, the update of close time 2 replaced the last element and the update of
\* close time 3 was appended, evicting the first.
C35_Witness ==
  /\ size = 2 /\ Len(snapshot) = 2
  /\ snapshot[1] = [T |-> 2, c |-> "y"]
  /\ snapshot[2].T = 3
  /\ current = Def(snapshot[2])
  /\ resourceState.data # Undefined
  /\ Val(resourceState.data)[1].T = 1

(* ------------- SpecArrays: the window's array objects ----------------- *)
\* The array _snapshot = $snapshot.peek() as the merge callback leaves it.
\* The replace branch reads it (slice copies); the append branch calls push
\* and shift on it and publishes a copy of the result.
PeekedAfter(s, cur, sz) ==
  IF SameCloseTime(s, cur) THEN s ELSE PushShift(s, cur, sz)

\* The candle stream pushes cur; besides the published window the step gives
\* the contents of the array the merge callback read.
ArrayLiveUpdate(cur) ==
  /\ current' = Def(cur)
  /\ MergeEffectRun
  /\ peeked' = IF ~mergeDisposed /\ HasInitialData(snapshot)
               THEN PeekedAfter(snapshot, cur, size)
               ELSE snapshot
  /\ UNCHANGED <<size, seedDisposed, mergeDisposed, rvars, hvars, evars, svars, ivars>>

InitArrays == InitWindow

NextArrays ==
  \/ \E id \in 1..MaxSnapFetch, d \in SnapVals : WResolve(id, d)
  \/ \E id \in 1..MaxSnapFetch, e \in ErrVals : WReject(id, e)
  \/ WRefetch
  \/ \E cur \in Candles : ArrayLiveUpdate(cur)
  \/ LiveClear
  \/ WDispose

SpecArrays == InitArrays /\ [][NextArrays]_vars

\* C36: a published window is never modified in place: a merge (replace or
\* append-and-evict) leaves the array that was in the window cell before it
\* with its old length and elements, and leaves the snapshot resource's data
\* array as it was.
C36_NeverModifiedInPlace ==
  [][(LiveStep /\ ~mergeDisposed /\ Len(snapshot) # 0)
       => /\ peeked' = snapshot
          /\ resourceState'.data = resourceState.data]_vars

\* The step seeds the window: it was empty and is not any more.
SeedStep == Len(snapshot) = 0 /\ Len(snapshot') # 0

\* C37: seed/live interleaving.  The step that seeds the window makes it the
\* fetched array exactly, whether or not a live update arrived before it, and
\* leaves the live-update cell alone; from then on the window changes only in
\* a live update's step, whose value becomes the last element while every
\* other element was in the window before.
C37_SeedLiveInterleaving ==
  [][/\ SeedStep => /\ resourceState'.data # Undefined
                    /\ snapshot' = Val(resourceState'.data)
                    /\ current' = current
     /\ (Len(snapshot) # 0 /\ snapshot' # snapshot)
          => /\ LiveStep
             /\ Last(snapshot') = Val(current')
             /\ \A i \in 1..(Len(snapshot') - 1) :
                  \E j \in 1..Len(snapshot) : snapshot'[i] = snapshot[j]]_vars

\* A candle arrived while the snapshot was pending; the snapshot has seeded
\* the window, the merge effect is still subscribed and the candle is not in
\* the window.
C37_Witness ==
  /\ fetchId = 1
  /\ tasks[1].status = "resolved"
  /\ ~mergeDisposed
  /\ Len(snapshot) # 0
  /\ resourceState.data = Def(snapshot)
  /\ current # Undefined
  /\ \A i \in 1..Len(snapshot) : snapshot[i] # Val(current)

\* The one snapshot fetch of useCandlesSnapshot has failed or has resolved
\* with an empty array, and refetch() was not called on the resource.
FailedOrEmpty ==
  /\ fetchId = 1
  /\ 1 \in DOMAIN tasks
  /\ \/ tasks[1].status = "rejected"
     \/ tasks[1].status = "resolved" /\ resourceState.data = Def(<<>>)

\* C38: once the snapshot fetch has failed or resolved with an empty array the
\* window is empty and the capacity is 0, and this stays so under every live
\* update, clearing and disposal that follows; the settling of a fetch starts
\* no further fetch.
C38_FailedOrEmptyStaysEmpty ==
  /\ [](FailedOrEmpty => (snapshot = <<>> /\ size = 0))
  /\ [][/\ SettleStep => (~StartsFetch /\ fetchId' = fetchId)
        /\ (FailedOrEmpty /\ ~StartsFetch) => FailedOrEmpty']_vars

\* The snapshot fetch failed and a candle has been pushed to a merge effect
\* that is still subscribed: the window is empty.
C38_Witness ==
  /\ fetchId = 1
  /\ tasks[1].status = "rejected"
  /\ resourceState.error = Def("e1")
  /\ current = Def([T |-> 2, c |-> "y"])
  /\ ~mergeDisposed
  /\ snapshot = <<>>

(* ---------------- SpecLive: every started fetch settles --------------- *)
\* The fetcher's promise of task id settles, one way or the other.
SettleTask(id) ==
  \/ \E d \in DataVals : Resolve(id, d)
  \/ \E e \in ErrVals : Reject(id, e)

\* A promise that is created is settled by the event loop's own progress, not
\* by a call of the program: a pending task stays pending until its step.
SpecLive == Init /\ [][Next]_vars /\ \A id \in 1..MaxGen : WF_vars(SettleTask(id))

\* The task of the last generation got a cancellation signal from its fetcher
\* although nothing had cancelled its token.
UncancelledAbort ==
  /\ fetchId \in DOMAIN tasks
  /\ tasks[fetchId].status = "rejected"
  /\ ~tasks[fetchId].aborted
  /\ fetchId \in DOMAIN outcome
  /\ IsAbortError(outcome[fetchId])

\* C39: liveness.  When the source changes and refetch() calls have ceased and
\* every started fetch settles, the resource reaches and stays in a state with
\* loading = false, unless the last generation's fetcher failed with a
\* cancellation signal for a token nothing had cancelled.
C39_EventuallySettled ==
  <>[](~resourceState.loading \/ UncancelledAbort)

\* The last generation's fetch has failed after two earlier generations, every
\* task has settled, and the state is Failed with loading = false.
C39_Witness ==
  /\ fetchId = MaxGen
  /\ \A id \in DOMAIN tasks : tasks[id].status # "pending"
  /\ fetchId \in DOMAIN tasks
  /\ lastSettled = fetchId
  /\ resourceState = FailedState("e1")

(* ------------------- SpecActions: the action hooks -------------------- *)
\* Each hook is createResource(() => config, wallet call) and returns only
\* $loading, $error and $data, computed from the resource's state.
Hooks == {"useCancelOrder", "useMarketClose", "useMarketOpen", "useMarketStoploss"}

\* The hooks returned: () => config reads no signal and config is an object,
\* so each effect has run once and called the wallet client.
InitActions ==
  /\ insts = [h \in Hooks |-> Created("config")]
  /\ actor = ""
  /\ NoResource
  /\ NoWindow
  /\ NoEffect
  /\ NoStreams
  /\ NoArrays

\* Nothing a hook returns changes its source or calls refetch(): the only
\* steps are the settlings of the wallet calls.
NextActions ==
  \/ \E h \in Hooks, d \in DataVals : InstResolve(h, 1, d)
  \/ \E h \in Hooks, e \in ErrVals : InstReject(h, 1, e)

SpecActions == InitActions /\ [][NextActions]_vars

\* The wallet calls hook h has made.
WalletCalls(h) == DOMAIN insts[h].tasks

\* C40: each action hook has made exactly one wallet call, the one of its
\* creation; its $loading is true exactly while that call is unsettled, and
\* once the call has settled $data (resolved) or $error (rejected) is set.
C40_ActionHooks ==
  \A h \in DOMAIN insts :
    /\ WalletCalls(h) = {1}
    /\ insts[h].resourceState.loading <=> insts[h].tasks[1].status = "pending"
    /\ insts[h].tasks[1].status = "resolved"
         => insts[h].resourceState.data # Undefined
    /\ insts[h].tasks[1].status = "rejected"
         => insts[h].resourceState.error # Undefined

====
